---- MODULE Spec2Model ----
(***************************************************************************)
(* filter_apis_by_following_edges_from_allowlist                           *)
(* (engine/src/conversion/analysis/gc.rs): mark-and-sweep over the Apis    *)
(* discovered by bindgen, keeping those reachable from the allowlist.      *)
(*                                                                         *)
(* The function is modelled as a state machine: one action for the seed    *)
(* selection and index construction, one action per way an iteration of    *)
(* the `while` loop can go, one for the return.  After the first call has  *)
(* returned, the function is called a second time on its own output with   *)
(* the same allowlist.                                                     *)
(***************************************************************************)
EXTENDS Integers, Sequences, FiniteSets

\* Bound of the model: the size of the `apis` argument, counted as its number
\* of apis plus the number of dependency edges they carry.
MaxSize == 4

\* TypeName values.  They are opaque keys (hashed and compared, never
\* inspected); with MaxSize of them every api can have its own name and, as
\* soon as there is an edge, there are names no api carries.
TypeNames == 1..MaxSize

\* Values of api.typename_for_allowlist().to_cpp_name().  The allowlist is
\* only asked whether a name is in it, so two names give every pattern of
\* apis on and off the allowlist, under every allowlist over them.
CppNames == {"ns::A", "ns::B"}

VARIABLES
    input,        \* the value `apis` had when the function was called
    allow,        \* the allowlist held by type_database
    apis,         \* the `apis` argument (drained at line 54)
    todos,        \* Vec of TypeName, used as a FIFO queue
    by_typename,  \* HashMap<TypeName, Vec<Api>>
    done,         \* HashSet<TypeName>
    output,       \* Vec<Api>
    pc,           \* "start", "loop", "done"
    call,         \* 1: the first call, 2: the call on the first call's output
    first,        \* what the first call returned
    marked        \* the TypeNames in the order they were inserted into `done`

vars == <<input, allow, apis, todos, by_typename, done, output, pc, call, first, marked>>

----------------------------------------------------------------------------
\* Helpers on sequences.

Range(s) == {s[i] : i \in 1..Len(s)}

RECURSIVE SumLen(_, _)
SumLen(f, n) == IF n = 0 THEN 0 ELSE Len(f[n]) + SumLen(f, n - 1)

SeqsUpTo(S, n) == UNION {[1..k -> S] : k \in 0..n}

Max(a, b) == IF a >= b THEN a ELSE b

RECURSIVE MaxOf(_, _)
MaxOf(f, n) == IF n = 0 THEN 0 ELSE Max(f[n], MaxOf(f, n - 1))

\* The TypeNames of an input are numbered in order of first appearance.
FirstAppearance(tns, n) == \A i \in 1..n : tns[i] <= MaxOf(tns, i - 1) + 1

----------------------------------------------------------------------------
\* The collaborators of the function.

\* Api::typename
typename(api) == api.tn

\* api.typename_for_allowlist().to_cpp_name()
cpp_name_for_allowlist(api) == api.cpp

\* TypeDatabase::is_on_allowlist
is_on_allowlist(A, cpp) == cpp \in A

----------------------------------------------------------------------------
\* Lines 45-52: the TypeNames of the allowlisted apis, in the order of `apis`.

RECURSIVE MapTypename(_)
MapTypename(s) ==
    IF s = <<>> THEN <<>> ELSE <<typename(Head(s))>> \o MapTypename(Tail(s))

SeedsUnfiltered(s, A) == MapTypename(s)

SeedTodos(s, A) ==
    LET Allowed(api) == is_on_allowlist(A, cpp_name_for_allowlist(api))
    IN  MapTypename(SelectSeq(s, Allowed))

\* Lines 53-57: the apis grouped by TypeName, each group in the order of `apis`.

RECURSIVE Reverse(_)
Reverse(s) == IF s = <<>> THEN <<>> ELSE Reverse(Tail(s)) \o <<Head(s)>>

GroupPushFront(s) ==
    [k \in {typename(s[i]) : i \in 1..Len(s)} |->
        LET Same(api) == typename(api) = k IN Reverse(SelectSeq(s, Same))]

GroupByTypename(s) ==
    [k \in {typename(s[i]) : i \in 1..Len(s)} |->
        LET Same(api) == typename(api) = k IN SelectSeq(s, Same)]

\* Line 66: these_apis.iter().flat_map(|api| api.deps.iter().cloned())

FirstDepsOnly(group) == IF group = <<>> THEN <<>> ELSE Head(group).deps

RECURSIVE FlatDeps(_)
FlatDeps(group) ==
    IF group = <<>> THEN <<>> ELSE Head(group).deps \o FlatDeps(Tail(group))

\* Line 65: by_typename.remove(&todo)
MapRemove(m, k) == [x \in (DOMAIN m) \ {k} |-> m[x]]

EmptyMap == [k \in {} |-> <<>>]

----------------------------------------------------------------------------
\* The inputs: n apis and at most MaxSize - n dependency edges.  `id` stands
\* for the rest of the Api (its payload): no two apis of an input are the same
\* object.

MakeApis(n, tns, cpps, deps) ==
    [i \in 1..n |-> [id |-> i, tn |-> tns[i], cpp |-> cpps[i], deps |-> deps[i]]]

Init ==
    /\ \E n \in 0..MaxSize :
         \E tns \in {f \in [1..n -> TypeNames] : FirstAppearance(f, n)} :
           \E deps \in {f \in [1..n -> SeqsUpTo(TypeNames, MaxSize - n)] :
                            SumLen(f, n) <= MaxSize - n} :
             \E cpps \in [1..n -> CppNames] :
               input = MakeApis(n, tns, cpps, deps)
    /\ allow \in SUBSET CppNames
    /\ apis = input
    /\ todos = <<>>
    /\ by_typename = EmptyMap
    /\ done = {}
    /\ output = <<>>
    /\ pc = "start"
    /\ call = 1
    /\ first = <<>>
    /\ marked = <<>>

\* Lines 45-59.
Begin ==
    /\ pc = "start"
    /\ todos' = SeedTodos(apis, allow)
    /\ by_typename' = GroupByTypename(apis)
    /\ apis' = <<>>
    /\ done' = {}
    /\ output' = <<>>
    /\ pc' = "loop"
    /\ UNCHANGED <<input, allow, call, first, marked>>

\* Lines 60-64: the dequeued name is already done.
LoopSkipNoRemove ==
    /\ pc = "loop"
    /\ todos # <<>>
    /\ Head(todos) \in done
    /\ UNCHANGED vars

LoopSkip ==
    /\ pc = "loop"
    /\ todos # <<>>
    /\ Head(todos) \in done
    /\ todos' = Tail(todos)
    /\ UNCHANGED <<input, allow, apis, by_typename, done, output, pc, call, first, marked>>

\* Lines 60-69, the `if let` taken: the name has a group in the index.
LoopVisitNoDone ==
    /\ pc = "loop"
    /\ todos # <<>>
    /\ Head(todos) \notin done
    /\ Head(todos) \in DOMAIN by_typename
    /\ LET todo == Head(todos)
           these_apis == by_typename[todo]
       IN  /\ todos' = Tail(todos) \o FlatDeps(these_apis)
           /\ output' = output \o these_apis
           /\ by_typename' = MapRemove(by_typename, todo)
           /\ UNCHANGED <<done, marked>>
    /\ UNCHANGED <<input, allow, apis, pc, call, first>>

LoopVisitDepsInFront ==
    /\ pc = "loop"
    /\ todos # <<>>
    /\ Head(todos) \notin done
    /\ Head(todos) \in DOMAIN by_typename
    /\ LET todo == Head(todos)
           these_apis == by_typename[todo]
       IN  /\ todos' = FlatDeps(these_apis) \o Tail(todos)
           /\ output' = output \o these_apis
           /\ by_typename' = MapRemove(by_typename, todo)
           /\ done' = done \cup {todo}
           /\ marked' = Append(marked, todo)
    /\ UNCHANGED <<input, allow, apis, pc, call, first>>

LoopVisit ==
    /\ pc = "loop"
    /\ todos # <<>>
    /\ Head(todos) \notin done
    /\ Head(todos) \in DOMAIN by_typename
    /\ LET todo == Head(todos)
           these_apis == by_typename[todo]
       IN  /\ todos' = Tail(todos) \o FlatDeps(these_apis)
           /\ output' = output \o these_apis
           /\ by_typename' = MapRemove(by_typename, todo)
           /\ done' = done \cup {todo}
           /\ marked' = Append(marked, todo)
    /\ UNCHANGED <<input, allow, apis, pc, call, first>>

\* Lines 60-69, the `if let` not taken: no group under that name.
LoopDanglingNoDone ==
    /\ pc = "loop"
    /\ todos # <<>>
    /\ Head(todos) \notin done
    /\ Head(todos) \notin DOMAIN by_typename
    /\ todos' = Tail(todos)
    /\ UNCHANGED <<input, allow, apis, by_typename, done, output, pc, call, first, marked>>

LoopDangling ==
    /\ pc = "loop"
    /\ todos # <<>>
    /\ Head(todos) \notin done
    /\ Head(todos) \notin DOMAIN by_typename
    /\ todos' = Tail(todos)
    /\ done' = done \cup {Head(todos)}
    /\ marked' = Append(marked, Head(todos))
    /\ UNCHANGED <<input, allow, apis, by_typename, output, pc, call, first>>

\* Lines 60 and 71: the queue is empty, `output` is returned.
Return ==
    /\ pc = "loop"
    /\ todos = <<>>
    /\ pc' = "done"
    /\ UNCHANGED <<input, allow, apis, todos, by_typename, done, output, call, first, marked>>

\* The caller passes the returned Vec to the function again.
CallAgain ==
    /\ pc = "done"
    /\ call = 1
    /\ call' = 2
    /\ first' = output
    /\ input' = output
    /\ apis' = output
    /\ todos' = <<>>
    /\ by_typename' = EmptyMap
    /\ done' = {}
    /\ output' = <<>>
    /\ marked' = <<>>
    /\ pc' = "start"
    /\ UNCHANGED allow

Next ==
    \/ Begin
    \/ LoopSkip
    \/ LoopVisit
    \/ LoopDangling
    \/ Return
    \/ CallAgain

Spec == Init /\ [][Next]_vars

\* The function is a sequential program: it takes its next step whenever it
\* has one.
LiveSpec == Spec /\ WF_vars(Next)

----------------------------------------------------------------------------
\* Vocabulary of the properties.

Returned == pc = "done"

TnSet(s) == {typename(s[i]) : i \in 1..Len(s)}

Allowed(api) == is_on_allowlist(allow, cpp_name_for_allowlist(api))

\* The TypeNames the allowlist selects in the input.
Seeds == {typename(input[i]) : i \in {j \in 1..Len(input) : Allowed(input[j])}}

\* The TypeNames the apis named k depend on.
DepsOf(k) ==
    UNION {Range(input[i].deps) : i \in {j \in 1..Len(input) : typename(input[j]) = k}}

\* The apis of the input named k, in input order.
GroupOf(k) == LET Same(api) == typename(api) = k IN SelectSeq(input, Same)

PosIn(s, x) == CHOOSE p \in 1..Len(s) : s[p] = x

InOutput(api) == \E p \in 1..Len(output) : output[p] = api

\* The names reachable from R by dependency edges that stay inside `within`.
RECURSIVE ReachWithin(_, _)
ReachWithin(R, within) ==
    LET more == {d \in within : \E k \in R : d \in DepsOf(k)}
    IN  IF more \subseteq R THEN R ELSE ReachWithin(R \cup more, within)

\* The least number of dependency edges from the seeds to k (-1: unreachable).
RECURSIVE DepthFrom(_, _, _)
DepthFrom(k, R, d) ==
    IF k \in R THEN d
    ELSE LET more == R \cup UNION {DepsOf(x) : x \in R}
         IN  IF more = R THEN -1 ELSE DepthFrom(k, more, d + 1)

Depth(k) == DepthFrom(k, Seeds, 0)

----------------------------------------------------------------------------
\* C1 (closure): when the function has returned, every TypeName in the deps
\* of a returned api is either the name of no api of the input or the name of
\* a returned api.
Closure ==
    Returned =>
        \A p \in 1..Len(output) : \A d \in Range(output[p].deps) :
            d \notin TnSet(input) \/ d \in TnSet(output)

\* A returned api depends on another, resolved name while some api was dropped.
ClosureWitness ==
    /\ Returned
    /\ Len(output) < Len(input)
    /\ \E p \in 1..Len(output) : \E d \in Range(output[p].deps) :
          d \in TnSet(input) /\ d # typename(output[p])

\* C2 (soundness): every returned api's name is reached from the name of an
\* allowlisted api by a chain of dependency edges all of whose names are
\* names of returned apis; nothing unreachable from the seeds is returned.
Soundness ==
    Returned =>
        /\ TnSet(output) \subseteq ReachWithin(Seeds \cap TnSet(output), TnSet(output))
        /\ \A p \in 1..Len(output) : Depth(typename(output[p])) >= 0

\* An api that is no seed is returned and another api is dropped.
SoundnessWitness ==
    /\ Returned
    /\ Len(output) < Len(input)
    /\ \E p \in 1..Len(output) : typename(output[p]) \notin Seeds

\* C3 (no fabrication, no duplication): every api of `output` is an api of
\* the input, unchanged; none occurs twice; `output` is no longer than the
\* input; apis of the same name keep their input order.
NoFabrication ==
    /\ \A p \in 1..Len(output) : output[p] \in Range(input)
    /\ \A p, q \in 1..Len(output) : p # q => output[p] # output[q]
    /\ Len(output) <= Len(input)
    /\ \A p, q \in 1..Len(output) :
          (p < q /\ typename(output[p]) = typename(output[q]))
              => PosIn(input, output[p]) < PosIn(input, output[q])

\* A name enqueued twice (two allowlisted apis carry it) whose group of two
\* has been returned.
NoFabricationWitness ==
    /\ Returned
    /\ \E i, j \in 1..Len(input) :
          /\ i < j
          /\ typename(input[i]) = typename(input[j])
          /\ Allowed(input[i]) /\ Allowed(input[j])
          /\ InOutput(input[i]) /\ InOutput(input[j])
          /\ typename(input[i]) \in Range(input[j].deps)

\* C4 (termination): the loop, once entered, reaches the return; and every
\* iteration either takes one group out of the index or leaves the index
\* alone and shortens the queue by one.
Termination ==
    /\ (pc = "loop") ~> (pc = "done")
    /\ [][(pc = "loop" /\ todos # <<>>) =>
            \/ Cardinality(DOMAIN by_typename') = Cardinality(DOMAIN by_typename) - 1
            \/ /\ by_typename' = by_typename
               /\ Len(todos') = Len(todos) - 1]_vars

\* The function has returned two apis that depend on each other.
TerminationWitness ==
    /\ Returned
    /\ \E p, q \in 1..Len(output) :
          /\ typename(output[p]) # typename(output[q])
          /\ typename(output[q]) \in Range(output[p].deps)
          /\ typename(output[p]) \in Range(output[q].deps)

\* C5 (idempotence): the call on the first call's output, with the same
\* allowlist, returns that output: the same apis in the same order.
Idempotence == (Returned /\ call = 2) => output = first

\* The second call has returned, and the first call had reordered its input.
IdempotenceWitness ==
    /\ Returned
    /\ call = 2
    /\ \E p, q \in 1..Len(output) : p < q /\ output[p].id > output[q].id

\* C6 (nothing allowlisted): when no api of the input is on the allowlist,
\* the queue stays empty, no name is ever marked and nothing is returned.
NoSeeds == \A i \in 1..Len(input) : ~Allowed(input[i])

EmptyOnNoSeeds ==
    NoSeeds => (output = <<>> /\ todos = <<>> /\ done = {})

\* Returned from an input with a resolved edge and a non-empty allowlist that
\* matches no api.
EmptyOnNoSeedsWitness ==
    /\ Returned
    /\ NoSeeds
    /\ allow # {}
    /\ \E i \in 1..Len(input) : Range(input[i].deps) \cap TnSet(input) # {}

\* C7 (groups move as a unit): when an api is on the allowlist, all the apis
\* of the input with its TypeName are returned, next to each other and in
\* input order, and every name in their deps has been visited, its apis (if
\* any) returned too.
GroupAsUnit ==
    Returned =>
        \A i \in 1..Len(input) :
            Allowed(input[i]) =>
                LET g == GroupOf(typename(input[i]))
                IN  /\ \E p \in 1..Len(output) :
                          /\ p + Len(g) - 1 <= Len(output)
                          /\ SubSeq(output, p, p + Len(g) - 1) = g
                    /\ \A m \in 1..Len(g) : \A d \in Range(g[m].deps) :
                          /\ d \in done
                          /\ \A j \in 1..Len(input) :
                                typename(input[j]) = d => InOutput(input[j])

\* An api off the allowlist is returned because an allowlisted api shares its
\* name, and what it depends on is returned as well.
GroupAsUnitWitness ==
    /\ Returned
    /\ \E i, j \in 1..Len(input) :
          /\ i < j
          /\ typename(input[i]) = typename(input[j])
          /\ Allowed(input[i]) /\ ~Allowed(input[j])
          /\ \E k \in 1..Len(input) :
                /\ typename(input[k]) # typename(input[j])
                /\ typename(input[k]) \in Range(input[j].deps)
                /\ ~Allowed(input[k])
                /\ InOutput(input[k])

\* C8 (dangling edge): an iteration that dequeues a name that is not done and
\* has no group only inserts the name into `done` and drops it from the queue;
\* `output` and the index stay as they are.  One allowlisted api whose only
\* dependency is on an unknown name is returned alone.
DanglingStep ==
    /\ [][(/\ pc = "loop"
           /\ todos # <<>>
           /\ Head(todos) \notin done
           /\ Head(todos) \notin DOMAIN by_typename)
          => (/\ done' = done \cup {Head(todos)}
              /\ todos' = Tail(todos)
              /\ output' = output
              /\ by_typename' = by_typename
              /\ pc' = "loop")]_vars
    /\ [](( /\ Returned
            /\ Len(input) = 1
            /\ Allowed(input[1])
            /\ Len(input[1].deps) = 1
            /\ input[1].deps[1] # typename(input[1]))
          => output = input)

\* Returned with a name in `done` that no api of the input carries.
DanglingStepWitness ==
    /\ Returned
    /\ output # <<>>
    /\ \E d \in done : d \notin TnSet(input)

\* C9 (breadth-first order): the groups are in `output` in the order in which
\* their names were first dequeued; the groups of the seeds come first, in
\* the order in which the input allowlists them; the distance from the seeds
\* never decreases along `output`.
FirstAllowed(k) ==
    CHOOSE i \in 1..Len(input) :
        /\ typename(input[i]) = k /\ Allowed(input[i])
        /\ \A j \in 1..(i - 1) : ~(typename(input[j]) = k /\ Allowed(input[j]))

MarkedAt(k) == CHOOSE m \in 1..Len(marked) : marked[m] = k

BreadthFirst ==
    Returned =>
        \A p, q \in 1..Len(output) :
            p < q =>
                LET a == typename(output[p])
                    b == typename(output[q])
                IN  /\ Depth(a) <= Depth(b)
                    /\ b \in Seeds => a \in Seeds
                    /\ (a # b /\ a \in Seeds /\ b \in Seeds)
                          => FirstAllowed(a) < FirstAllowed(b)
                    /\ a \in Range(marked) /\ b \in Range(marked)
                    /\ MarkedAt(a) <= MarkedAt(b)

\* Returned two seeds' groups and then a group reached by an edge from the
\* first seed.
BreadthFirstWitness ==
    /\ Returned
    /\ Len(output) = 3
    /\ Depth(typename(output[1])) = 0
    /\ Depth(typename(output[2])) = 0
    /\ Depth(typename(output[3])) = 1
    /\ typename(output[1]) # typename(output[2])
    /\ typename(output[3]) \in Range(output[1].deps)

\* C10 (conservation): at the head of the loop the apis in `output` and the
\* apis in the groups of the index are disjoint and are together the apis of
\* the input; no name in `done` is a key of the index; the names of the apis
\* in `output` are all in `done`; no name was marked twice.
RECURSIVE SumGroups(_, _)
SumGroups(m, K) ==
    IF K = {} THEN 0
    ELSE LET k == CHOOSE x \in K : TRUE IN Len(m[k]) + SumGroups(m, K \ {k})

Indexed == UNION {Range(by_typename[k]) : k \in DOMAIN by_typename}

Conservation ==
    pc = "loop" =>
        /\ Range(output) \cap Indexed = {}
        /\ Range(output) \cup Indexed = Range(input)
        /\ Len(output) + SumGroups(by_typename, DOMAIN by_typename) = Len(input)
        /\ \A k \in DOMAIN by_typename : typename(by_typename[k][1]) = k
        /\ done \cap DOMAIN by_typename = {}
        /\ TnSet(output) \subseteq done
        /\ Range(marked) = done
        /\ Cardinality(done) = Len(marked)

\* In the loop with one group moved to `output`, one still in the index, and
\* a name in the queue that is already done.
ConservationWitness ==
    /\ pc = "loop"
    /\ output # <<>>
    /\ DOMAIN by_typename # {}
    /\ todos # <<>>
    /\ Head(todos) \in done

====
